---- MODULE Spec2Model ----
(***************************************************************************)
(* log4go: the Logger (a map of named Filters), the Filter (threshold,     *)
(* bounded channel, consumer goroutine, Close/Flush protocols) and the     *)
(* FileLogWriter, as state machines.                                       *)
(*                                                                         *)
(* Spec     : one controller task (AddFilter, Filter.Close, Filter.Flush,  *)
(*            Logger.Close, Logger.Flush, LoadTomlConfig), one producer    *)
(*            task (Logger.Log, Filter.WriteToChan) and one consumer       *)
(*            goroutine (Filter.run) per Filter, over the LogWriter        *)
(*            interface.                                                   *)
(* SpecFile : one Filter over a FileLogWriter: the consumer's LogWrite,    *)
(*            the rotation goroutines and a task calling Filter.Flush.     *)
(* SpecEmit : Filters are registered, then Logger.Log and Logger.Json are  *)
(*            called; no Filter is closed.                                 *)
(* SpecConsole : a ConsoleLogWriter: its goroutine and a task calling      *)
(*            LogWrite and Close.                                          *)
(* SpecPure : one call of Level.String, strToNumSuffix or the checks of    *)
(*            ConfigToLogWriter on an argument drawn from a finite set.    *)
(* Goroutines interleave at every shared read and write; time (the 100 ms  *)
(* polls) is abstracted, so a bounded wait may end at any moment.          *)
(***************************************************************************)
EXTENDS Integers, Sequences, FiniteSets, TLC

\* ------------------------------------------------------------ levels
DEBUG == 0
TRACE == 1
INFO == 2
WARNING == 3
ERROR == 4
CRITICAL == 5

\* ------------------------------------------------------------ bounds
\* capacity of a Filter's channel (the program's variable LogBufferLength,
\* 32 by default, settable by the embedding program)
LogBufferLength == 1
\* Filters ever created by NewFilter
MaxGates == 2
\* records ever emitted by the producer
MaxRecs == 2
\* operations the controller task starts
MaxOps == 3
\* FileLogWriter.bufsize, in rendered records (one unit of length each); the
\* program's default is BUFFERSIZE bytes, SetBufSize sets it
bufsize == 1
\* records sent to the Filter that owns the FileLogWriter
MaxWrites == 3
\* Filter.Flush calls on that Filter
MaxFlush == 2
\* capacity of ConsoleLogWriter.rec (256 in the source), and the LogWrite
\* calls made on the ConsoleLogWriter
ConsoleBufferLength == 2
MaxConsoleWrites == 4
\* the largest Level handed to Level.String, and the filters in a
\* configuration handed to ConfigToLogWriter
MaxLevelArg == 8
MaxCfgLen == 2

Names == {"stdout", "file"}
\* thresholds given to Filters, and severities of emitted records
GateLevels == {INFO, WARNING}
RecLevels == {INFO, ERROR}
\* thresholds given to the Filters of SpecEmit
EmitGateLevels == {INFO, WARNING, CRITICAL}
\* the payloads handed to Logger.Json: bytes that are no JSON, an object whose
\* Level is no number, and objects with a Level and a Message
JsonInputs ==
    { <<"malformed">>, <<"badtype">>, <<"object", TRACE, "m">>,
      <<"object", WARNING, "m">>, <<"object", 7, "m">> }

Gates == 1..MaxGates
NoRec == <<0, 0, <<>>>>
\* the filter lists a configuration file may hold: <<enabled, tag, level>>
CfgLists ==
    { << <<FALSE, "stdout", INFO>>, <<TRUE, "file", WARNING>> >>,
      << <<TRUE, "stdout", INFO>>, <<TRUE, "file", WARNING>> >>,
      << <<TRUE, "file", INFO>>, <<TRUE, "file", WARNING>> >> }

VARIABLES
    log,         \* Logger: name -> Filter (0: no entry)
    nGates,      \* Filters created so far
    Level,       \* Filter.Level
    rec,         \* Filter.rec: the channel's buffered records
    closed,      \* Filter.rec has been closed
    closing,     \* Filter.closing
    run,         \* Filter.run: the consumer goroutine of each Filter
    main,        \* the controller task
    prod,        \* the producer task
    nextRec,     \* records emitted so far
    ops,         \* controller operations started so far
    accepted,    \* history: <<id, the Filter was not closing>> of each record
                 \* enqueued on each Filter, in order
    delivered,   \* history: LogWrite calls on each Filter's LogWriter, in order
    sinkClosed,  \* history: LogWriter.Close calls on each Filter's LogWriter
    sinkFlushed  \* history: LogWriter.Flush calls on each Filter's LogWriter, each
                 \* with the number of records accepted before it

\* the FileLogWriter of SpecFile
VARIABLES
    fq,          \* Filter.rec of the Filter that owns the FileLogWriter
    iow,         \* FileLogWriter.iow: the live buffer (0: nil)
    buf,         \* contents of each bytes.Buffer ever allocated
    wg,          \* FileLogWriter.wg: the WaitGroup's counter
    rot,         \* the rotation goroutines spawned by LogWrite
    files,       \* history: the files written so far, in order of writing,
                 \* each with the buffer (seg) it was written from
    frun,        \* the consumer goroutine of that Filter, in run and LogWrite
                 \* (over: its WriteString left the live buffer above bufsize)
    fcall,       \* the task calling Filter.Flush
    fhist        \* history: one entry for each Filter.Flush that has returned

\* the ConsoleLogWriter of SpecConsole
VARIABLES
    crec,        \* ConsoleLogWriter.rec: the write queue
    cwg,         \* ConsoleLogWriter.wg: the WaitGroup's counter
    ctask,       \* the goroutine started by NewConsoleLogWriter
    ccall,       \* the task calling LogWrite and Close
    cout         \* history: what was printed on c.iow, each entry with whether
                 \* Close had returned

\* the function under SpecPure
VARIABLES
    call         \* a call of a pure function: its name, argument and result

gvars == <<log, nGates, Level, rec, closed, closing, run, main, prod, nextRec,
           ops, accepted, delivered, sinkClosed, sinkFlushed>>
fvars == <<fq, iow, buf, wg, rot, files, frun, fcall, fhist>>

cvars == <<crec, cwg, ctask, ccall, cout>>
pvars == <<call>>
xvars == <<cvars, pvars>>

vars == <<gvars, fvars, xvars>>

Registered == {log[n] : n \in {m \in Names : log[m] # 0}}

IdleMain == [op |-> "none", pc |-> "ret", g |-> 0, n |-> "", r |-> NoRec,
             seen |-> {}, snap |-> {}, cfg |-> <<>>, i |-> 0]
IdleProd == [pc |-> "idle", r |-> NoRec, g |-> 0, seen |-> {}, dead |-> {},
             in |-> <<>>]

\* var log = make(Logger): no Filter yet
GInit ==
    /\ log = [n \in Names |-> 0]
    /\ nGates = 0
    /\ Level = [g \in Gates |-> DEBUG]
    /\ rec = [g \in Gates |-> <<>>]
    /\ closed = [g \in Gates |-> FALSE]
    /\ closing = [g \in Gates |-> FALSE]
    /\ run = [g \in Gates |-> [pc |-> "none", r |-> NoRec]]
    /\ main = IdleMain
    /\ prod = IdleProd
    /\ nextRec = 0
    /\ ops = 0
    /\ accepted = [g \in Gates |-> <<>>]
    /\ delivered = [g \in Gates |-> <<>>]
    /\ sinkClosed = [g \in Gates |-> 0]
    /\ sinkFlushed = [g \in Gates |-> <<>>]

\* ------------------------------------------------------------ NewFilter
\* NewFilter(lvl, writer) bound to name n: a fresh open channel, closing
\* false, and the consumer goroutine started.
NewFilter(n, lvl) ==
    /\ nGates < MaxGates
    /\ nGates' = nGates + 1
    /\ Level' = [Level EXCEPT ![nGates + 1] = lvl]
    /\ run' = [run EXCEPT ![nGates + 1] = [pc |-> "recv", r |-> NoRec]]
    /\ log' = [log EXCEPT ![n] = nGates + 1]

\* ------------------------------------------------------------ Filter.run
\* case rec, ok := <-f.rec: a record, or the end of the closed channel
RunRecv(g) ==
    /\ run[g].pc = "recv"
    /\ \/ /\ Len(rec[g]) > 0
          /\ run' = [run EXCEPT ![g] = [pc |-> "got", r |-> Head(rec[g])]]
          /\ rec' = [rec EXCEPT ![g] = Tail(rec[g])]
       \/ /\ Len(rec[g]) = 0
          /\ closed[g]
          /\ run' = [run EXCEPT ![g] = [pc |-> "exit", r |-> NoRec]]
          /\ rec' = rec
    /\ UNCHANGED <<log, nGates, Level, closed, closing, main, prod, nextRec, ops,
                   accepted, delivered, sinkClosed, sinkFlushed, fvars, xvars>>

\* f.LogWrite(rec)
RunLogWrite(g) ==
    /\ run[g].pc = "got"
    /\ delivered' = [delivered EXCEPT ![g] = Append(@, run[g].r[1])]
    /\ run' = [run EXCEPT ![g] = [pc |-> "recv", r |-> NoRec]]
    /\ UNCHANGED <<log, nGates, Level, rec, closed, closing, main, prod, nextRec,
                   ops, accepted, sinkClosed, sinkFlushed, fvars, xvars>>

\* ------------------------------------------------------------ controller
\* the controller's positions inside Filter.Close
InFilterClose == {"fc_mark", "fc_close", "fc_len", "fc_drain", "fc_got", "fc_sink"}

\* Filter.Close of g has been called and has returned
CloseReturned(g) == closing[g] /\ ~(main.g = g /\ main.pc \in InFilterClose)

\* Logger.AddFilter(name, lvl, writer)
AddFilter(n, lvl) ==
    /\ main.pc = "ret"
    /\ ops < MaxOps
    /\ NewFilter(n, lvl)
    /\ ops' = ops + 1
    /\ UNCHANGED <<rec, closed, closing, main, prod, nextRec, accepted, delivered,
                   sinkClosed, sinkFlushed, fvars, xvars>>

\* Filter.Close is called: if f.closing { return }, then the polling loop,
\* which ends when the channel is seen empty or after ten polls, whatever
\* the channel holds
FilterClose_call(g) ==
    /\ main.pc = "ret"
    /\ ops < MaxOps
    /\ g \in Registered
    /\ main' = IF closing[g] THEN main
               ELSE [IdleMain EXCEPT !.op = "FilterClose", !.pc = "fc_mark", !.g = g]
    /\ ops' = ops + 1
    /\ UNCHANGED <<log, nGates, Level, rec, closed, closing, run, prod, nextRec,
                   accepted, delivered, sinkClosed, sinkFlushed, fvars, xvars>>

\* f.closing = true
FilterClose_mark ==
    /\ main.pc = "fc_mark"
    /\ closing' = [closing EXCEPT ![main.g] = TRUE]
    /\ main' = [main EXCEPT !.pc = "fc_close"]
    /\ UNCHANGED <<log, nGates, Level, rec, closed, run, prod, nextRec, ops,
                   accepted, delivered, sinkClosed, sinkFlushed, fvars, xvars>>

\* defer f.LogWriter.Close(); close(f.rec)
FilterClose_close ==
    /\ main.pc = "fc_close"
    /\ closed' = [closed EXCEPT ![main.g] = TRUE]
    /\ main' = [main EXCEPT !.pc = "fc_len"]
    /\ UNCHANGED <<log, nGates, Level, rec, closing, run, prod, nextRec, ops,
                   accepted, delivered, sinkClosed, sinkFlushed, fvars, xvars>>

\* FilterClose_len with the LogWriter's Close deferred only after this return
FilterClose_len_nodefer ==
    /\ main.pc = "fc_len"
    /\ main' = IF Len(rec[main.g]) > 0 THEN [main EXCEPT !.pc = "fc_drain"]
               ELSE IF main.op = "FilterClose" THEN IdleMain
               ELSE [main EXCEPT !.pc = "lc_delete"]
    /\ UNCHANGED <<log, nGates, Level, rec, closed, closing, run, prod, nextRec,
                   ops, accepted, delivered, sinkClosed, sinkFlushed, fvars, xvars>>

\* if len(f.rec) <= 0 { return }
FilterClose_len ==
    /\ main.pc = "fc_len"
    /\ main' = [main EXCEPT !.pc = IF Len(rec[main.g]) <= 0 THEN "fc_sink"
                                   ELSE "fc_drain"]
    /\ UNCHANGED <<log, nGates, Level, rec, closed, closing, run, prod, nextRec,
                   ops, accepted, delivered, sinkClosed, sinkFlushed, fvars, xvars>>

\* FilterClose_drain with the records left in the channel thrown away
FilterClose_drain_discard ==
    /\ main.pc = "fc_drain"
    /\ main' = [main EXCEPT !.pc = "fc_sink"]
    /\ rec' = [rec EXCEPT ![main.g] = <<>>]
    /\ UNCHANGED <<log, nGates, Level, closed, closing, run, prod, nextRec, ops,
                   accepted, delivered, sinkClosed, sinkFlushed, fvars, xvars>>

\* for rec := range f.rec: the next record, or the end of the closed channel
FilterClose_drain ==
    /\ main.pc = "fc_drain"
    /\ \/ /\ Len(rec[main.g]) > 0
          /\ main' = [main EXCEPT !.pc = "fc_got", !.r = Head(rec[main.g])]
          /\ rec' = [rec EXCEPT ![main.g] = Tail(rec[main.g])]
       \/ /\ Len(rec[main.g]) = 0
          /\ main' = [main EXCEPT !.pc = "fc_sink"]
          /\ rec' = rec
    /\ UNCHANGED <<log, nGates, Level, closed, closing, run, prod, nextRec, ops,
                   accepted, delivered, sinkClosed, sinkFlushed, fvars, xvars>>

\* f.LogWrite(rec) on the closing task
FilterClose_LogWrite ==
    /\ main.pc = "fc_got"
    /\ delivered' = [delivered EXCEPT ![main.g] = Append(@, main.r[1])]
    /\ main' = [main EXCEPT !.pc = "fc_drain"]
    /\ UNCHANGED <<log, nGates, Level, rec, closed, closing, run, prod, nextRec,
                   ops, accepted, sinkClosed, sinkFlushed, fvars, xvars>>

\* the deferred f.LogWriter.Close(), then Filter.Close returns: to its
\* caller, or to Logger.Close's delete
FilterClose_sink ==
    /\ main.pc = "fc_sink"
    /\ sinkClosed' = [sinkClosed EXCEPT ![main.g] = @ + 1]
    /\ main' = IF main.op = "FilterClose" THEN IdleMain
               ELSE [main EXCEPT !.pc = "lc_delete", !.r = NoRec]
    /\ UNCHANGED <<log, nGates, Level, rec, closed, closing, run, prod, nextRec,
                   ops, accepted, delivered, sinkFlushed, fvars, xvars>>

\* Logger.Close()
LoggerClose_call ==
    /\ main.pc = "ret"
    /\ ops < MaxOps
    /\ main' = [IdleMain EXCEPT !.op = "LoggerClose", !.pc = "lc_range",
                                !.snap = Registered]
    /\ ops' = ops + 1
    /\ UNCHANGED <<log, nGates, Level, rec, closed, closing, run, prod, nextRec,
                   accepted, delivered, sinkClosed, sinkFlushed, fvars, xvars>>

\* for name, filt := range log: the next entry and the start of its
\* filt.Close(), or the end of the map, where Logger.Close returns and
\* LoadTomlConfig goes on with ConfigToLogWriter
LoggerClose_range ==
    /\ main.pc = "lc_range"
    /\ \/ \E n \in Names :
            /\ log[n] # 0
            /\ main' = [main EXCEPT !.n = n, !.g = log[n],
                          !.pc = IF closing[log[n]] THEN "lc_delete" ELSE "fc_mark"]
       \/ /\ \A n \in Names : log[n] = 0
          /\ main' = IF main.op = "LoadTomlConfig"
                     THEN [main EXCEPT !.pc = "cfg", !.i = 1, !.n = "", !.g = 0]
                     ELSE IdleMain
    /\ UNCHANGED <<log, nGates, Level, rec, closed, closing, run, prod, nextRec,
                   ops, accepted, delivered, sinkClosed, sinkFlushed, fvars, xvars>>

\* delete(log, name)
LoggerClose_delete ==
    /\ main.pc = "lc_delete"
    /\ log' = [log EXCEPT ![main.n] = 0]
    /\ main' = [main EXCEPT !.pc = "lc_range"]
    /\ UNCHANGED <<nGates, Level, rec, closed, closing, run, prod, nextRec, ops,
                   accepted, delivered, sinkClosed, sinkFlushed, fvars, xvars>>

\* entries of a filter list that ConfigToLogWriter will register
Enabled(cfg) == {i \in 1..Len(cfg) : cfg[i][1]}

\* Logger.LoadTomlConfig: log.Close(), then ConfigToLogWriter(cfg)
LoadTomlConfig_call(cfg) ==
    /\ main.pc = "ret"
    /\ ops < MaxOps
    /\ nGates + Cardinality(Enabled(cfg)) <= MaxGates
    /\ main' = [IdleMain EXCEPT !.op = "LoadTomlConfig", !.pc = "lc_range",
                                !.snap = Registered, !.cfg = cfg]
    /\ ops' = ops + 1
    /\ UNCHANGED <<log, nGates, Level, rec, closed, closing, run, prod, nextRec,
                   accepted, delivered, sinkClosed, sinkFlushed, fvars, xvars>>

\* Logger.ConfigToLogWriter: one turn of the loop over cfg.Filters
ConfigToLogWriter ==
    /\ main.pc = "cfg"
    /\ \/ /\ main.i > Len(main.cfg)
          /\ main' = IdleMain
          /\ UNCHANGED <<log, nGates, Level, run>>
       \/ /\ main.i <= Len(main.cfg)
          /\ ~main.cfg[main.i][1]
          /\ main' = [main EXCEPT !.i = @ + 1]
          /\ UNCHANGED <<log, nGates, Level, run>>
       \/ /\ main.i <= Len(main.cfg)
          /\ main.cfg[main.i][1]
          /\ NewFilter(main.cfg[main.i][2], main.cfg[main.i][3])
          /\ main' = [main EXCEPT !.i = @ + 1]
    /\ UNCHANGED <<rec, closed, closing, prod, nextRec, ops, accepted, delivered,
                   sinkClosed, sinkFlushed, fvars, xvars>>

\* Filter.Flush is called: if f.closing { return }, then the polling loop
FilterFlush_call(g) ==
    /\ main.pc = "ret"
    /\ ops < MaxOps
    /\ g \in Registered
    /\ main' = IF closing[g] THEN main
               ELSE [IdleMain EXCEPT !.op = "FilterFlush", !.pc = "ff_sink", !.g = g]
    /\ ops' = ops + 1
    /\ UNCHANGED <<log, nGates, Level, rec, closed, closing, run, prod, nextRec,
                   accepted, delivered, sinkClosed, sinkFlushed, fvars, xvars>>

\* FilterFlush_sink with Close's "block write channel" copied into Flush
FilterFlush_sink_closing ==
    /\ main.pc = "ff_sink"
    /\ closing' = [closing EXCEPT ![main.g] = TRUE]
    /\ sinkFlushed' = [sinkFlushed EXCEPT ![main.g] = Append(@, Len(accepted[main.g]))]
    /\ main' = IF main.op = "FilterFlush" THEN IdleMain
               ELSE [main EXCEPT !.pc = "lf_range"]
    /\ UNCHANGED <<log, nGates, Level, rec, closed, run, prod, nextRec,
                   ops, accepted, delivered, sinkClosed, fvars, xvars>>

\* f.LogWriter.Flush(), then Filter.Flush returns: to its caller, or to
\* Logger.Flush's loop
FilterFlush_sink ==
    /\ main.pc = "ff_sink"
    /\ sinkFlushed' = [sinkFlushed EXCEPT ![main.g] = Append(@, Len(accepted[main.g]))]
    /\ main' = IF main.op = "FilterFlush" THEN IdleMain
               ELSE [main EXCEPT !.pc = "lf_range"]
    /\ UNCHANGED <<log, nGates, Level, rec, closed, closing, run, prod, nextRec,
                   ops, accepted, delivered, sinkClosed, fvars, xvars>>

\* Logger.Flush()
LoggerFlush_call ==
    /\ main.pc = "ret"
    /\ ops < MaxOps
    /\ main' = [IdleMain EXCEPT !.op = "LoggerFlush", !.pc = "lf_range"]
    /\ ops' = ops + 1
    /\ UNCHANGED <<log, nGates, Level, rec, closed, closing, run, prod, nextRec,
                   accepted, delivered, sinkClosed, sinkFlushed, fvars, xvars>>

\* for name, filt := range log: the next entry and the start of its
\* filt.Flush(), or the end of the map
LoggerFlush_range ==
    /\ main.pc = "lf_range"
    /\ \/ \E n \in Names \ main.seen :
            /\ log[n] # 0
            /\ main' = [main EXCEPT !.n = n, !.g = log[n], !.seen = @ \cup {n},
                          !.pc = IF closing[log[n]] THEN "lf_range" ELSE "ff_sink"]
       \/ /\ \A n \in Names \ main.seen : log[n] = 0
          /\ main' = IdleMain
    /\ UNCHANGED <<log, nGates, Level, rec, closed, closing, run, prod, nextRec,
                   ops, accepted, delivered, sinkClosed, sinkFlushed, fvars, xvars>>

\* ------------------------------------------------------------ producer
\* skip answering true as soon as one Filter is above lvl
skip_any(lvl) == \E n \in Names : log[n] # 0 /\ ~(lvl >= Level[log[n]])

\* Logger.skip(lvl): no Filter of the map has Level <= lvl
skip(lvl) == \A n \in Names : log[n] # 0 => ~(lvl >= Level[log[n]])

\* Logger.Log(lvl, source, message): if log.skip(lvl) { return }, then the
\* record is made and dispatch begins
Log(lvl) ==
    /\ prod.pc = "idle"
    /\ nextRec < MaxRecs
    /\ nextRec' = nextRec + 1
    /\ prod' = IF skip(lvl) THEN prod
               ELSE [IdleProd EXCEPT !.pc = "range", !.r = <<nextRec + 1, lvl, <<"message">>>>,
                        !.dead = {g \in Gates : CloseReturned(g)}]
    /\ UNCHANGED <<log, nGates, Level, rec, closed, closing, run, main, ops,
                   accepted, delivered, sinkClosed, sinkFlushed, fvars, xvars>>

\* json.Unmarshal(data, &rec) on a payload: the error, and the LogRecord's
\* Level and Message as decoded
Unmarshal(data) ==
    IF data[1] = "object"
    THEN [err |-> FALSE, Level |-> data[2], Message |-> <<data[3]>>]
    ELSE [err |-> TRUE, Level |-> DEBUG, Message |-> <<>>]

\* Logger.intLogf(lvl, format): if log.skip(lvl) { return }, then the record
\* is made with the format as its message and dispatch begins
intLogf(lvl, msg, data) ==
    /\ prod.pc = "idle"
    /\ nextRec < MaxRecs
    /\ nextRec' = nextRec + 1
    /\ prod' = IF skip(lvl) THEN prod
               ELSE [IdleProd EXCEPT !.pc = "range", !.r = <<nextRec + 1, lvl, msg>>,
                        !.dead = {g \in Gates : CloseReturned(g)}, !.in = data]
    /\ UNCHANGED <<log, nGates, Level, rec, closed, closing, run, main, ops,
                   accepted, delivered, sinkClosed, sinkFlushed, fvars, xvars>>

\* Json with the payload that failed to decode thrown away
Json_drop(data) ==
    IF Unmarshal(data).err
    THEN /\ prod.pc = "idle"
         /\ nextRec < MaxRecs
         /\ nextRec' = nextRec + 1
         /\ UNCHANGED <<log, nGates, Level, rec, closed, closing, run, main, ops,
                        prod, accepted, delivered, sinkClosed, sinkFlushed, fvars,
                        xvars>>
    ELSE intLogf(Unmarshal(data).Level, Unmarshal(data).Message, data)

\* Logger.Json(data): on a decode error log.intLogf(WARNING, "Err: " + error
\* + " - " + data); otherwise if log.skip(rec.Level) { return } and
\* log.dispatch(&rec)
Json(data) ==
    IF Unmarshal(data).err
    THEN intLogf(WARNING, <<"Err", data>>, data)
    ELSE intLogf(Unmarshal(data).Level, Unmarshal(data).Message, data)

\* Logger.dispatch: for _, filt := range log: the next entry, which is
\* passed over below its Level and handed to WriteToChan otherwise, or the end
dispatch ==
    /\ prod.pc = "range"
    /\ \/ \E n \in Names \ prod.seen :
            /\ log[n] # 0
            /\ prod' = IF prod.r[2] < Level[log[n]]
                       THEN [prod EXCEPT !.seen = @ \cup {n}]
                       ELSE [prod EXCEPT !.seen = @ \cup {n}, !.g = log[n],
                                         !.pc = "check"]
       \/ /\ \A n \in Names \ prod.seen : log[n] = 0
          /\ prod' = IdleProd
    /\ UNCHANGED <<log, nGates, Level, rec, closed, closing, run, main, nextRec,
                   ops, accepted, delivered, sinkClosed, sinkFlushed, fvars, xvars>>

\* WriteToChan_check without the test of f.closing
WriteToChan_nocheck ==
    /\ prod.pc = "check"
    /\ prod' = [prod EXCEPT !.pc = "send"]
    /\ UNCHANGED <<log, nGates, Level, rec, closed, closing, run, main, nextRec,
                   ops, accepted, delivered, sinkClosed, sinkFlushed, fvars, xvars>>

\* Filter.WriteToChan: if f.closing { return }
WriteToChan_check ==
    /\ prod.pc = "check"
    /\ prod' = IF closing[prod.g] THEN [prod EXCEPT !.pc = "range", !.g = 0]
               ELSE [prod EXCEPT !.pc = "send"]
    /\ UNCHANGED <<log, nGates, Level, rec, closed, closing, run, main, nextRec,
                   ops, accepted, delivered, sinkClosed, sinkFlushed, fvars, xvars>>

\* WriteToChan_send as a non-blocking send: the record is dropped when the
\* channel is full
WriteToChan_send_drop ==
    /\ prod.pc = "send"
    /\ \/ /\ closed[prod.g]
          /\ prod' = [prod EXCEPT !.pc = "panic"]
          /\ UNCHANGED <<rec, accepted>>
       \/ /\ ~closed[prod.g]
          /\ Len(rec[prod.g]) < LogBufferLength
          /\ rec' = [rec EXCEPT ![prod.g] = Append(@, prod.r)]
          /\ accepted' = [accepted EXCEPT ![prod.g] =
                              Append(@, <<prod.r[1], ~closing[prod.g]>>)]
          /\ prod' = [prod EXCEPT !.pc = "range", !.g = 0]
       \/ /\ ~closed[prod.g]
          /\ Len(rec[prod.g]) >= LogBufferLength
          /\ prod' = [prod EXCEPT !.pc = "range", !.g = 0]
          /\ UNCHANGED <<rec, accepted>>
    /\ UNCHANGED <<log, nGates, Level, closed, closing, run, main, nextRec, ops,
                   delivered, sinkClosed, sinkFlushed, fvars, xvars>>

\* Filter.WriteToChan: f.rec <- rec. A send on a closed channel panics, a
\* send on a full one waits.
WriteToChan_send ==
    /\ prod.pc = "send"
    /\ \/ /\ closed[prod.g]
          /\ prod' = [prod EXCEPT !.pc = "panic"]
          /\ UNCHANGED <<rec, accepted>>
       \/ /\ ~closed[prod.g]
          /\ Len(rec[prod.g]) < LogBufferLength
          /\ rec' = [rec EXCEPT ![prod.g] = Append(@, prod.r)]
          /\ accepted' = [accepted EXCEPT ![prod.g] =
                              Append(@, <<prod.r[1], ~closing[prod.g]>>)]
          /\ prod' = [prod EXCEPT !.pc = "range", !.g = 0]
    /\ UNCHANGED <<log, nGates, Level, closed, closing, run, main, nextRec, ops,
                   delivered, sinkClosed, sinkFlushed, fvars, xvars>>

\* ------------------------------------------------------------ Spec
\* the FileLogWriter plays no part in Spec
\* no ConsoleLogWriter, and no pure function under test
CIdle ==
    /\ crec = <<>>
    /\ cwg = 0
    /\ ctask = "none"
    /\ ccall = [pc |-> "none", n |-> 0]
    /\ cout = <<>>

NoCall == [fn |-> "none", arg |-> <<>>, ret |-> <<>>, done |-> FALSE]

XIdle == CIdle /\ call = NoCall

FIdle ==
    /\ fq = <<>>
    /\ iow = 0
    /\ buf = <<>>
    /\ wg = 0
    /\ rot = <<>>
    /\ files = <<>>
    /\ frun = [pc |-> "none", r |-> 0, p |-> 0, n |-> 0, over |-> FALSE]
    /\ fcall = [pc |-> "none", tmp |-> 0, w0 |-> 0, busy |-> FALSE]
    /\ fhist = <<>>

Init == GInit /\ FIdle /\ XIdle

Next ==
    \/ \E n \in Names, lvl \in GateLevels : AddFilter(n, lvl)
    \/ \E g \in Gates : FilterClose_call(g)
    \/ FilterClose_mark
    \/ FilterClose_close
    \/ FilterClose_len
    \/ FilterClose_drain
    \/ FilterClose_LogWrite
    \/ FilterClose_sink
    \/ LoggerClose_call
    \/ LoggerClose_range
    \/ LoggerClose_delete
    \/ \E cfg \in CfgLists : LoadTomlConfig_call(cfg)
    \/ ConfigToLogWriter
    \/ \E g \in Gates : FilterFlush_call(g)
    \/ FilterFlush_sink
    \/ LoggerFlush_call
    \/ LoggerFlush_range
    \/ \E lvl \in RecLevels : Log(lvl)
    \/ dispatch
    \/ WriteToChan_check
    \/ WriteToChan_send
    \/ \E g \in Gates : RunRecv(g)
    \/ \E g \in Gates : RunLogWrite(g)

Spec == Init /\ [][Next]_vars

\* ------------------------------------------------------------ SpecEmit
\* Filters are registered, then records are emitted with Log and Json; no
\* Filter is closed
NextEmit ==
    \/ \E n \in Names, lvl \in EmitGateLevels : nextRec = 0 /\ AddFilter(n, lvl)
    \/ \E lvl \in RecLevels : Log(lvl)
    \/ \E data \in JsonInputs : Json(data)
    \/ dispatch
    \/ WriteToChan_check
    \/ WriteToChan_send
    \/ \E g \in Gates : RunRecv(g)
    \/ \E g \in Gates : RunLogWrite(g)

SpecEmit == Init /\ [][NextEmit]_vars

\* ------------------------------------------------------------ SpecFile
\* NewFileLogWriter (iow nil, no goroutine) under a Filter made by NewFilter
FInit ==
    /\ fq = <<>>
    /\ iow = 0
    /\ buf = <<>>
    /\ wg = 0
    /\ rot = <<>>
    /\ files = <<>>
    /\ frun = [pc |-> "recv", r |-> 0, p |-> 0, n |-> 0, over |-> FALSE]
    /\ fcall = [pc |-> "idle", tmp |-> 0, w0 |-> 0, busy |-> FALSE]
    /\ fhist = <<>>

\* Filter.WriteToChan on the open Filter: f.rec <- rec
FWriteToChan ==
    /\ frun.n + Len(fq) < MaxWrites
    /\ Len(fq) < LogBufferLength
    /\ fq' = Append(fq, frun.n + Len(fq) + 1)
    /\ UNCHANGED <<iow, buf, wg, rot, files, frun, fcall, fhist, gvars, xvars>>

\* Filter.run: rec := <-f.rec, and f.LogWrite(rec) is entered
FRunRecv ==
    /\ frun.pc = "recv"
    /\ Len(fq) > 0
    /\ frun' = [frun EXCEPT !.pc = "load", !.r = Head(fq), !.n = @ + 1]
    /\ fq' = Tail(fq)
    /\ UNCHANGED <<iow, buf, wg, rot, files, fcall, fhist, gvars, xvars>>

\* FileLogWriter.LogWrite: if c.iow == nil { c.iow = bytes.NewBuffer(...) },
\* and c.iow is read for the WriteString that follows
LogWrite_load ==
    /\ frun.pc = "load"
    /\ IF iow = 0
       THEN /\ buf' = Append(buf, <<>>)
            /\ iow' = Len(buf) + 1
            /\ frun' = [frun EXCEPT !.pc = "append", !.p = Len(buf) + 1]
       ELSE /\ UNCHANGED <<buf, iow>>
            /\ frun' = [frun EXCEPT !.pc = "append", !.p = iow]
    /\ UNCHANGED <<fq, wg, rot, files, fcall, fhist, gvars, xvars>>

\* FileLogWriter.LogWrite: c.iow.WriteString(s)
LogWrite_append ==
    /\ frun.pc = "append"
    /\ buf' = [buf EXCEPT ![frun.p] = Append(@, frun.r)]
    /\ frun' = [frun EXCEPT !.pc = "check",
                             !.over = (frun.p = iow /\ Len(buf[frun.p]) + 1 > bufsize)]
    /\ UNCHANGED <<fq, iow, wg, rot, files, fcall, fhist, gvars, xvars>>

\* FileLogWriter.LogWrite: if c.iow.Len() > c.bufsize: the buffer is swapped
\* for a fresh one, c.wg.Add(1), and the goroutine that writes it is started
LogWrite_rotate ==
    /\ frun.pc = "check"
    /\ IF Len(buf[iow]) > bufsize
       THEN /\ rot' = Append(rot, [pc |-> "open", tmp |-> iow])
            /\ buf' = Append(buf, <<>>)
            /\ iow' = Len(buf) + 1
            /\ wg' = wg + 1
       ELSE UNCHANGED <<rot, buf, iow, wg>>
    /\ frun' = [frun EXCEPT !.pc = "recv", !.r = 0, !.p = 0, !.over = FALSE]
    /\ UNCHANGED <<fq, files, fcall, fhist, gvars, xvars>>

\* the rotation goroutine: os.OpenFile succeeds, or fails and the goroutine
\* returns
Rotate_open(j) ==
    /\ rot[j].pc = "open"
    /\ \/ rot' = [rot EXCEPT ![j].pc = "write"]
       \/ rot' = [rot EXCEPT ![j].pc = "failed"]
    /\ UNCHANGED <<fq, iow, buf, wg, files, frun, fcall, fhist, gvars, xvars>>

\* the rotation goroutine: tmp.WriteTo(fd), which empties tmp; fd.Sync();
\* c.wg.Done()
Rotate_write(j) ==
    /\ rot[j].pc = "write"
    /\ files' = Append(files, [by |-> "rotate", text |-> buf[rot[j].tmp],
                                seg |-> rot[j].tmp])
    /\ buf' = [buf EXCEPT ![rot[j].tmp] = <<>>]
    /\ wg' = wg - 1
    /\ rot' = [rot EXCEPT ![j].pc = "done"]
    /\ UNCHANGED <<fq, iow, frun, fcall, fhist, gvars, xvars>>

\* a Filter.Flush that returns: what it saw when called and what it did
FlushEntry(wrote, err) ==
    [w0 |-> fcall.w0, busy |-> fcall.busy, w1 |-> frun.n, wrote |-> wrote,
     err |-> err]

FlushRet == [pc |-> "idle", tmp |-> 0, w0 |-> 0, busy |-> FALSE]

\* Filter.Flush on the open Filter: the polling loop, then
\* f.LogWriter.Flush(), which is c.Close()
FilterFlush_file ==
    /\ fcall.pc = "idle"
    /\ Len(fhist) < MaxFlush
    /\ fcall' = [pc |-> "wait", tmp |-> 0, w0 |-> frun.n, busy |-> frun.pc # "recv"]
    /\ UNCHANGED <<fq, iow, buf, wg, rot, files, frun, fhist, gvars, xvars>>

\* FileLogWriter.Close: c.wg.Wait()
Close_wait ==
    /\ fcall.pc = "wait"
    /\ wg = 0
    /\ fcall' = [fcall EXCEPT !.pc = "test"]
    /\ UNCHANGED <<fq, iow, buf, wg, rot, files, frun, fhist, gvars, xvars>>

\* Close_test with LogWrite's threshold: Close returns unless the live buffer
\* is above bufsize
Close_test_threshold ==
    /\ fcall.pc = "test"
    /\ IF iow = 0 \/ Len(buf[iow]) <= bufsize
       THEN /\ fcall' = FlushRet
            /\ fhist' = Append(fhist, FlushEntry(FALSE, FALSE))
       ELSE /\ fcall' = [fcall EXCEPT !.pc = "open"]
            /\ fhist' = fhist
    /\ UNCHANGED <<fq, iow, buf, wg, rot, files, frun, gvars, xvars>>

\* FileLogWriter.Close: if c.iow == nil || c.iow.Len() == 0 { return }
Close_test ==
    /\ fcall.pc = "test"
    /\ IF iow = 0 \/ Len(buf[iow]) = 0
       THEN /\ fcall' = FlushRet
            /\ fhist' = Append(fhist, FlushEntry(FALSE, FALSE))
       ELSE /\ fcall' = [fcall EXCEPT !.pc = "open"]
            /\ fhist' = fhist
    /\ UNCHANGED <<fq, iow, buf, wg, rot, files, frun, gvars, xvars>>

\* FileLogWriter.Close: os.OpenFile succeeds, or fails and Close returns
\* with c.iow as it is
Close_open ==
    /\ fcall.pc = "open"
    /\ \/ /\ fcall' = [fcall EXCEPT !.pc = "swap"]
          /\ fhist' = fhist
       \/ /\ fcall' = FlushRet
          /\ fhist' = Append(fhist, FlushEntry(FALSE, TRUE))
    /\ UNCHANGED <<fq, iow, buf, wg, rot, files, frun, gvars, xvars>>

\* FileLogWriter.Close: tmp := c.iow; c.iow = bytes.NewBuffer(...)
Close_swap ==
    /\ fcall.pc = "swap"
    /\ fcall' = [fcall EXCEPT !.pc = "write", !.tmp = iow]
    /\ buf' = Append(buf, <<>>)
    /\ iow' = Len(buf) + 1
    /\ UNCHANGED <<fq, wg, rot, files, frun, fhist, gvars, xvars>>

\* FileLogWriter.Close: tmp.WriteTo(fd), which empties tmp; fd.Sync(); the
\* pause; Close, Flush and Filter.Flush return
Close_write ==
    /\ fcall.pc = "write"
    /\ files' = Append(files, [by |-> "close", text |-> buf[fcall.tmp],
                                seg |-> fcall.tmp])
    /\ buf' = [buf EXCEPT ![fcall.tmp] = <<>>]
    /\ fcall' = FlushRet
    /\ fhist' = Append(fhist, FlushEntry(TRUE, FALSE))
    /\ UNCHANGED <<fq, iow, wg, rot, frun, gvars, xvars>>

InitFile == GInit /\ FInit /\ XIdle

NextFile ==
    \/ FWriteToChan
    \/ FRunRecv
    \/ LogWrite_load
    \/ LogWrite_append
    \/ LogWrite_rotate
    \/ \E j \in 1..Len(rot) : Rotate_open(j)
    \/ \E j \in 1..Len(rot) : Rotate_write(j)
    \/ FilterFlush_file
    \/ Close_wait
    \/ Close_test
    \/ Close_open
    \/ Close_swap
    \/ Close_write

SpecFile == InitFile /\ [][NextFile]_vars

\* ------------------------------------------------------------ SpecConsole
\* NewConsoleLogWriter: the queue is made and the goroutine is started; the
\* goroutine has not run yet
CInit ==
    /\ crec = <<>>
    /\ cwg = 0
    /\ ctask = "start"
    /\ ccall = [pc |-> "idle", n |-> 0]
    /\ cout = <<>>

\* the goroutine of NewConsoleLogWriter: c.wg.Add(1)
ConsoleRun_Add ==
    /\ ctask = "start"
    /\ cwg' = cwg + 1
    /\ ctask' = "loop"
    /\ UNCHANGED <<crec, ccall, cout, gvars, fvars, pvars>>

\* the goroutine of NewConsoleLogWriter: case rec := <-c.rec; on the quit
\* entry c.wg.Done() and break LOOP, otherwise fmt.Fprint(c.iow, rec.data)
ConsoleRun_recv ==
    /\ ctask = "loop"
    /\ Len(crec) > 0
    /\ crec' = Tail(crec)
    /\ IF Head(crec).isQuit
       THEN /\ cwg' = cwg - 1
            /\ ctask' = "exit"
            /\ cout' = cout
       ELSE /\ cout' = Append(cout, [data |-> Head(crec).data,
                                     level |-> Head(crec).level,
                                     returned |-> ccall.pc = "closed"])
            /\ UNCHANGED <<cwg, ctask>>
    /\ UNCHANGED <<ccall, gvars, fvars, pvars>>

\* ConsoleLogWriter.LogWrite: c.rec <- &RecInfo{data: ..., level: ...}
ConsoleLogWrite(lvl) ==
    /\ ccall.pc = "idle"
    /\ ccall.n < MaxConsoleWrites
    /\ Len(crec) < ConsoleBufferLength
    /\ crec' = Append(crec, [isQuit |-> FALSE, level |-> lvl, data |-> ccall.n + 1])
    /\ ccall' = [ccall EXCEPT !.n = @ + 1]
    /\ UNCHANGED <<cwg, ctask, cout, gvars, fvars, pvars>>

\* ConsoleLogWriter.Close: c.rec <- &RecInfo{isQuit: true}
ConsoleClose_send ==
    /\ ccall.pc = "idle"
    /\ Len(crec) < ConsoleBufferLength
    /\ crec' = Append(crec, [isQuit |-> TRUE, level |-> DEBUG, data |-> 0])
    /\ ccall' = [ccall EXCEPT !.pc = "wait"]
    /\ UNCHANGED <<cwg, ctask, cout, gvars, fvars, pvars>>

\* ConsoleLogWriter.Close: c.wg.Wait() returns, and so does Close
ConsoleClose_wait ==
    /\ ccall.pc = "wait"
    /\ cwg = 0
    /\ ccall' = [ccall EXCEPT !.pc = "closed"]
    /\ UNCHANGED <<crec, cwg, ctask, cout, gvars, fvars, pvars>>

InitConsole == GInit /\ FIdle /\ CInit /\ call = NoCall

NextConsole ==
    \/ ConsoleRun_Add
    \/ ConsoleRun_recv
    \/ \E lvl \in RecLevels : ConsoleLogWrite(lvl)
    \/ ConsoleClose_send
    \/ ConsoleClose_wait

SpecConsole == InitConsole /\ [][NextConsole]_vars

\* ------------------------------------------------------------ SpecPure
\* var levelStrings
levelStrings == <<"DEBG", "TRAC", "INFO", "WARN", "EROR", "CRIT">>

\* Level.String: if l < 0 || int(l) > len(levelStrings) { return "UNKNOWN" };
\* return levelStrings[int(l)], which panics when the index is out of range
String(l) ==
    IF l < 0 \/ l > Len(levelStrings) THEN "UNKNOWN"
    ELSE IF l + 1 \in DOMAIN levelStrings THEN levelStrings[l + 1]
    ELSE "panic: index out of range"

\* Go's int on a 64-bit build: four limbs of sixteen bits, lowest first
LimbBase == 65536
IntLimbs == 4

\* x * m + c on a number of any length given by its limbs, for m and c small
RECURSIVE MulAdd(_, _, _)
MulAdd(x, m, c) ==
    IF x = <<>>
    THEN IF c = 0 THEN <<>> ELSE <<c % LimbBase>> \o MulAdd(<<>>, m, c \div LimbBase)
    ELSE <<(x[1] * m + c) % LimbBase>>
            \o MulAdd(Tail(x), m, (x[1] * m + c) \div LimbBase)

\* a number's limbs without its leading zero limbs
RECURSIVE Norm(_)
Norm(x) ==
    IF x # <<>> /\ x[Len(x)] = 0 THEN Norm(SubSeq(x, 1, Len(x) - 1)) ELSE x

\* the number is at most the largest int, 2^63 - 1
FitsInt(x) ==
    \/ Len(Norm(x)) < IntLimbs
    \/ Len(Norm(x)) = IntLimbs /\ x[IntLimbs] < LimbBase \div 2

\* the int holding the low 64 bits of a number: what a Go multiplication
\* that overflows leaves
WrapInt(x) == [i \in 1..IntLimbs |-> IF i <= Len(x) THEN x[i] ELSE 0]

MaxInt == <<LimbBase - 1, LimbBase - 1, LimbBase - 1, LimbBase \div 2 - 1>>

DecimalDigits == <<"0", "1", "2", "3", "4", "5", "6", "7", "8", "9">>
IsDigit(ch) == \E i \in 1..10 : DecimalDigits[i] = ch
DigitVal(ch) == (CHOOSE i \in 1..10 : DecimalDigits[i] = ch) - 1

\* the value of a string of decimal digits
RECURSIVE Decimal(_)
Decimal(str) ==
    IF str = <<>> THEN <<>>
    ELSE MulAdd(Decimal(SubSeq(str, 1, Len(str) - 1)), 10, DigitVal(str[Len(str)]))

\* strconv.Atoi on a string without sign: 0 and an error when the string is
\* empty or holds another character, the largest int and an error when the
\* number is out of range
Atoi(str) ==
    IF str = <<>> \/ \E i \in 1..Len(str) : ~IsDigit(str[i]) THEN WrapInt(<<>>)
    ELSE IF ~FitsInt(Decimal(str)) THEN MaxInt
    ELSE WrapInt(Decimal(str))

\* strToNumSuffix(str, mult): the switch on the last character with its
\* fallthroughs gives num = mult, mult^2 or mult^3 and cuts the suffix;
\* parsed, _ := strconv.Atoi(str); return parsed * num. The product is taken
\* one factor mult at a time, which leaves the same low 64 bits.
strToNumSuffix(str, mult) ==
    LET last == IF Len(str) > 1 THEN str[Len(str)] ELSE ""
        k    == IF last \in {"G", "g"} THEN 3
                ELSE IF last \in {"M", "m"} THEN 2
                ELSE IF last \in {"K", "k"} THEN 1 ELSE 0
        cut  == IF k > 0 THEN SubSeq(str, 1, Len(str) - 1) ELSE str
        p0   == Atoi(cut)
        p1   == IF k >= 1 THEN WrapInt(MulAdd(p0, mult, 0)) ELSE p0
        p2   == IF k >= 2 THEN WrapInt(MulAdd(p1, mult, 0)) ELSE p1
    IN  IF k >= 3 THEN WrapInt(MulAdd(p2, mult, 0)) ELSE p2

\* the names ConfigToLogWriter's switch on kvfilt.Level knows, and the types
\* its switch on kvfilt.Type knows
LevelNames == {"DEBUG", "TRACE", "INFO", "WARNING", "ERROR", "CRITICAL"}
TypeNames == {"console", "socket", "file"}

\* ConfigToLogWriter on one filter: what the checks of the required children
\* and the switch on the level print
FieldErrors(kvfilt) ==
    (IF kvfilt.Enabled = "" THEN <<"enabled missing">> ELSE <<>>)
        \o (IF kvfilt.Tag = "" THEN <<"tag missing">> ELSE <<>>)
        \o (IF kvfilt.Type = "" THEN <<"type missing">> ELSE <<>>)
        \o (IF kvfilt.Level = "" THEN <<"level missing">> ELSE <<>>)
        \o (IF kvfilt.Level \notin LevelNames THEN <<"level unknown">> ELSE <<>>)

\* ConfigToLogWriter from filter i on, out being what has been printed: a
\* filter with a bad required child ends the process after its own messages,
\* one with an unknown type after that message, any other is passed
RECURSIVE ConfigToLogWriter_report(_, _, _)
ConfigToLogWriter_report(cfg, i, out) ==
    IF i > Len(cfg) THEN [out |-> out, exit |-> FALSE]
    ELSE IF FieldErrors(cfg[i]) # <<>>
    THEN [out |-> out \o [j \in 1..Len(FieldErrors(cfg[i])) |->
                               <<i, FieldErrors(cfg[i])[j]>>],
          exit |-> TRUE]
    ELSE IF cfg[i].Type \notin TypeNames
    THEN [out |-> Append(out, <<i, "type unknown">>), exit |-> TRUE]
    ELSE ConfigToLogWriter_report(cfg, i + 1, out)

\* the arguments of the calls
LevelArgs == (0 - MaxLevelArg)..MaxLevelArg
NumberArgs ==
    { <<"0">>, <<"1">>, <<"2">>, <<"7">>, <<"1", "0">>, <<"0", "1", "2">>,
      <<"1", "0", "2", "4">>,
      <<"8", "5", "8", "9", "9", "3", "4", "5", "9", "1">>,
      <<"8", "5", "8", "9", "9", "3", "4", "5", "9", "2">>,
      <<"9", "2", "2", "3", "3", "7", "2", "0", "3", "6", "8", "5", "4", "7",
        "7", "5", "8", "0", "7">> }
Suffixes == {<<>>, <<"K">>, <<"k">>, <<"M">>, <<"m">>, <<"G">>, <<"g">>}
Mults == {1024, 1000}
KvFilters ==
    [Enabled : {"", "true"}, Tag : {"", "t"}, Type : {"", "file", "bogus"},
     Level : {"", "INFO", "bogus"}]
Configs == UNION {[1..n -> KvFilters] : n \in 1..MaxCfgLen}

\* a call of one of the functions is about to be made
InitPure ==
    /\ GInit /\ FIdle /\ CIdle
    /\ \/ \E l \in LevelArgs :
             call = [fn |-> "String", arg |-> <<l>>, ret |-> <<>>, done |-> FALSE]
       \/ \E n \in NumberArgs, sfx \in Suffixes, mult \in Mults :
             call = [fn |-> "strToNumSuffix", arg |-> <<n \o sfx, mult>>,
                     ret |-> <<>>, done |-> FALSE]
       \/ \E cfg \in Configs :
             call = [fn |-> "ConfigToLogWriter", arg |-> <<cfg>>, ret |-> <<>>,
                     done |-> FALSE]

String_call ==
    /\ call.fn = "String" /\ ~call.done
    /\ call' = [call EXCEPT !.ret = <<String(call.arg[1])>>, !.done = TRUE]
    /\ UNCHANGED <<gvars, fvars, cvars>>

strToNumSuffix_call ==
    /\ call.fn = "strToNumSuffix" /\ ~call.done
    /\ call' = [call EXCEPT !.ret = <<strToNumSuffix(call.arg[1], call.arg[2])>>,
                             !.done = TRUE]
    /\ UNCHANGED <<gvars, fvars, cvars>>

ConfigToLogWriter_call ==
    /\ call.fn = "ConfigToLogWriter" /\ ~call.done
    /\ call' = [call EXCEPT !.ret = <<ConfigToLogWriter_report(call.arg[1], 1, <<>>)>>,
                             !.done = TRUE]
    /\ UNCHANGED <<gvars, fvars, cvars>>

NextPure ==
    \/ String_call
    \/ strToNumSuffix_call
    \/ ConfigToLogWriter_call

SpecPure == InitPure /\ [][NextPure]_vars

\* ------------------------------------------------------------ helpers
Ids(q) == {q[i] : i \in 1..Len(q)}
RecIds(q) == {q[i][1] : i \in 1..Len(q)}
Pos(q, x) == CHOOSE i \in 1..Len(q) : q[i] = x
NoDup(q) == \A i, j \in 1..Len(q) : q[i] = q[j] => i = j

\* records taken from g's channel whose LogWrite has not been called yet
Held(g) ==
    (IF run[g].pc = "got" THEN {run[g].r[1]} ELSE {})
        \cup (IF main.pc = "fc_got" /\ main.g = g THEN {main.r[1]} ELSE {})

\* g's channel is closed, its consumer has exited and no Filter.Close of g
\* is under way
\* the ids enqueued on g, in order, and those enqueued while g was not closing
Acc(g) == [i \in 1..Len(accepted[g]) |-> accepted[g][i][1]]
ActiveIds(g) == {accepted[g][i][1] : i \in {k \in 1..Len(accepted[g]) : accepted[g][k][2]}}

Quiescent(g) ==
    /\ closed[g]
    /\ run[g].pc = "exit"
    /\ ~(main.g = g /\ main.pc \in InFilterClose)

\* ------------------------------------------------------------ claims
\* C1: every record accepted by a Filter is passed to LogWrite exactly once:
\* no record is passed twice, every accepted record is at each moment in
\* exactly one place (the channel, the hands of the consumer or of Close's
\* drain, or the LogWriter), and once the channel is closed, the consumer has
\* exited and Close has returned, the LogWriter has received every one.
C1_ExactlyOnce ==
    \A g \in Gates :
        /\ NoDup(delivered[g])
        /\ NoDup(Acc(g))
        /\ Ids(delivered[g]) \cup Held(g) \cup RecIds(rec[g]) = Ids(Acc(g))
        /\ Len(delivered[g]) + Cardinality(Held(g)) + Len(rec[g]) = Len(accepted[g])
        /\ Quiescent(g) => Ids(delivered[g]) = Ids(Acc(g))

\* two accepted records, one of them written by Close's drain, both at the
\* LogWriter when Close is about to release it and the consumer has exited
C1_Witness ==
    /\ main.pc = "fc_sink"
    /\ main.r # NoRec
    /\ run[main.g].pc = "exit"
    /\ Cardinality(ActiveIds(main.g)) = 2
    /\ Ids(delivered[main.g]) = ActiveIds(main.g)
    /\ main.r[1] \in Ids(delivered[main.g])

\* C2: the LogWriter of a Filter receives the records that were enqueued
\* while the Filter was not closing in the order in which they were enqueued.
C2_FIFO ==
    \A g \in Gates : \A i, j \in 1..Len(delivered[g]) :
        (i < j /\ delivered[g][i] \in ActiveIds(g) /\ delivered[g][j] \in ActiveIds(g))
            => Pos(Acc(g), delivered[g][i]) < Pos(Acc(g), delivered[g][j])

\* C3: the LogWriter's Close runs at most once, and once it has run every
\* record that was enqueued while the Filter was not closing has been passed
\* to LogWrite.
C3_CloseOnceAfterWrites ==
    \A g \in Gates :
        /\ sinkClosed[g] <= 1
        /\ sinkClosed[g] >= 1 => ActiveIds(g) \subseteq Ids(delivered[g])

\* C4: a record emitted through the Logger is enqueued on a Filter only if
\* the Filter's Level is at most the record's and the Filter is not closing,
\* and a Filter that dispatch or WriteToChan passes over is below the
\* record's Level or closing.
C4_EnqueueIff ==
    [][\A g \in Gates :
          /\ accepted'[g] # accepted[g] => Level[g] <= prod.r[2] /\ ~closing[g]
          /\ (prod.pc = "check" /\ prod.g = g /\ prod'.pc = "range") => closing[g]
          /\ (prod.pc = "range" /\ prod'.pc = "range"
                /\ \E n \in prod'.seen \ prod.seen : log[n] = g)
                => prod.r[2] < Level[g]]_vars

\* C5: an emit call that begins after Filter.Close of g has returned never
\* reaches the send on g's channel (so it neither blocks nor panics there)
\* and its record is never enqueued on g.
C5_EmitAfterClose ==
    \A g \in prod.dead :
        /\ prod.g = g => prod.pc \notin {"send", "panic"}
        /\ prod.r[1] \notin Ids(Acc(g))

\* an emit that began after Close returned has been through WriteToChan of
\* the closed Filter, whose Level admits the record, and is back in dispatch
C5_Witness ==
    /\ prod.pc = "range"
    /\ \E n \in prod.seen :
          /\ log[n] \in prod.dead
          /\ Level[log[n]] <= prod.r[2]

\* C6: the channel never holds more than LogBufferLength records, and while
\* the Filter is not closing a producer at the send either stays there (the
\* channel being full) or leaves it with its record appended to the channel.
C6_BlockNoDrop ==
    [][\A g \in Gates :
          /\ Len(rec'[g]) <= LogBufferLength
          /\ (prod.pc = "send" /\ prod.g = g /\ ~closing[g]) =>
                \/ prod' = prod
                \/ /\ Len(rec[g]) < LogBufferLength
                   /\ rec'[g] = Append(rec[g], prod.r)
                   /\ prod'.pc = "range"
          /\ (prod.pc = "send" /\ prod.g = g /\ ~closed[g]
                /\ Len(rec[g]) >= LogBufferLength) => prod' = prod]_vars

\* a producer waiting at the send on a full channel of an open Filter
C6_Witness ==
    /\ prod.pc = "send"
    /\ ~closing[prod.g]
    /\ Len(rec[prod.g]) = LogBufferLength

\* C7: every Filter whose consumer is running and whose LogWriter has not
\* been closed is the Filter registered under some name.
C7_LiveIsRegistered ==
    \A g \in 1..nGates :
        (run[g].pc # "exit" /\ sinkClosed[g] = 0) => g \in Registered

\* C8: when Logger.Close returns (to its caller, or to LoadTomlConfig, which
\* goes on to ConfigToLogWriter) the map is empty and every Filter that was
\* registered when it began is closing, has its channel closed and its
\* LogWriter closed.
C8_LoggerClose ==
    [][(main.pc = "lc_range" /\ main'.pc \in {"ret", "cfg"}) =>
          /\ \A n \in Names : log'[n] = 0
          /\ \A g \in main.snap :
                closing'[g] /\ closed'[g] /\ sinkClosed'[g] >= 1]_vars

\* Logger.Close about to return after closing two Filters
C8_Witness ==
    /\ main.op = "LoggerClose"
    /\ main.pc = "lc_range"
    /\ \A n \in Names : log[n] = 0
    /\ Cardinality(main.snap) = 2

\* C9: no step of Filter.Flush or Logger.Flush changes a Filter's closing
\* flag, channel, consumer, LogWriter.Close count or registration, and when
\* Filter.Flush returns from the LogWriter's Flush the Filter is still open,
\* consumed, unreleased and registered.
C9_FlushKeepsActive ==
    [][(main' # main /\ main.pc \in {"ff_sink", "lf_range"}) =>
          /\ UNCHANGED <<log, closing, closed, sinkClosed, run, rec, Level>>
          /\ main.pc = "ff_sink" =>
                /\ ~closing'[main.g]
                /\ ~closed'[main.g]
                /\ run'[main.g].pc \in {"recv", "got"}
                /\ sinkClosed'[main.g] = 0
                /\ main.g \in Registered']_vars

\* a record accepted after the LogWriter's Flush has reached the LogWriter
C9_Witness ==
    \E g \in Gates :
        /\ Len(sinkFlushed[g]) > 0
        /\ ~closing[g]
        /\ main.pc = "ret"
        /\ \E i \in 1..Len(delivered[g]) :
              Pos(Acc(g), delivered[g][i]) > sinkFlushed[g][1]

\* C10: of two Filter.Flush calls in a row on the Filter of a FileLogWriter,
\* with no LogWrite under way when the first is called and none entered
\* until the second returns, the second writes no file.
C10_FlushIdempotent ==
    \A k \in 1..(Len(fhist) - 1) :
        (~fhist[k].busy /\ fhist[k].w0 = fhist[k + 1].w1) => ~fhist[k + 1].wrote

\* C11: a LogWrite of the FileLogWriter starts a rotation goroutine exactly
\* when its append left the live buffer above bufsize; the goroutine then
\* holds the buffer with everything up to and including that record, the live
\* buffer is a fresh empty one, and nothing else starts a rotation.
C11_Rotation ==
    [][ /\ (frun.pc = "check" /\ frun'.pc = "recv") =>
             /\ (Len(rot') = Len(rot) + 1) <=> frun.over
             /\ Len(rot') = Len(rot) + 1 =>
                   /\ rot'[Len(rot')].tmp = frun.p
                   /\ \E i \in 1..Len(buf'[frun.p]) : buf'[frun.p][i] = frun.r
                   /\ iow' # frun.p
                   /\ buf'[iow'] = <<>>
        /\ ~(frun.pc = "check" /\ frun'.pc = "recv") => Len(rot') = Len(rot)
      ]_vars

\* the rotation goroutines that have not yet returned
InFlight == {j \in 1..Len(rot) : rot[j].pc \in {"open", "write"}}

\* C12: FileLogWriter.Close is never left in c.wg.Wait() on a counter that no
\* running rotation goroutine will decrement: every rotation goroutine that
\* has returned, also after a failed open, has called c.wg.Done().
C12_CloseReturns ==
    (fcall.pc = "wait" /\ wg > 0) => InFlight # {}

\* C13: when ConsoleLogWriter.Close has returned, the goroutine has taken the
\* quit entry and exited, every entry queued before it has been printed, and
\* nothing was printed after the return.
C13_ConsoleClose ==
    ccall.pc = "closed" =>
        /\ ctask = "exit"
        /\ Len(cout) = ccall.n
        /\ \A i \in 1..Len(cout) : ~cout[i].returned

\* the severity and the message of the record Logger.Json is to dispatch for
\* a payload: those decoded, or WARNING and the error with the payload
JsonLevel(data) == IF Unmarshal(data).err THEN WARNING ELSE Unmarshal(data).Level
JsonMessage(data) ==
    IF Unmarshal(data).err THEN <<"Err", data>> ELSE Unmarshal(data).Message

\* C14: Logger.Json on a payload that fails to decode makes one WARNING
\* record with the error and the payload, on one that decodes the decoded
\* record; the call returns at once when no Filter's Level is at most that
\* severity, and otherwise dispatch hands the record to exactly the Filters
\* whose Level is at most it, and never panics.
C14_Json ==
    [][ /\ \A data \in JsonInputs :
              Json(data) =>
                 IF \A g \in Registered : JsonLevel(data) < Level[g]
                 THEN prod' = prod /\ UNCHANGED <<rec, accepted>>
                 ELSE /\ prod'.pc = "range"
                      /\ prod'.r = <<nextRec + 1, JsonLevel(data), JsonMessage(data)>>
                      /\ UNCHANGED <<rec, accepted>>
        /\ (prod.in \in JsonInputs /\ prod.pc = "range" /\ prod' # prod) =>
              /\ \A n \in prod'.seen \ prod.seen :
                    (prod'.pc = "check" /\ prod'.g = log[n])
                        <=> Level[log[n]] <= JsonLevel(prod.in)
              /\ prod'.pc = "idle" => \A n \in Names : log[n] # 0 => n \in prod.seen
        /\ prod.in \in JsonInputs =>
              /\ prod'.pc # "panic"
              /\ \A g \in Gates :
                    accepted'[g] # accepted[g] => Level[g] <= JsonLevel(prod.in)
      ]_vars

\* the WARNING record made for a payload that is no JSON has been enqueued on
\* one Filter and has passed over another, whose Level is above WARNING
C14_Witness ==
    /\ prod.in = <<"malformed">>
    /\ prod.pc = "range"
    /\ prod.r[2] = WARNING
    /\ \E g1, g2 \in Registered :
          /\ prod.r[1] \in Ids(Acc(g1))
          /\ Level[g2] > WARNING
          /\ \A n \in Names : log[n] \in {g1, g2} => n \in prod.seen

\* the emit calls whose record has severity lvl
Emit(lvl) == Log(lvl) \/ \E data \in JsonInputs : JsonLevel(data) = lvl /\ Json(data)

\* C16: skip(lvl) is true exactly when no registered Filter has Level at most
\* lvl, and an emit call whose severity is below the Level of every
\* registered Filter changes no channel, no closing flag, no consumer, no
\* LogWriter history, not the map, and leaves the caller where it was.
C16_SkipNoOp ==
    [][\A lvl \in -1..7 :
          /\ skip(lvl) <=> ({g \in Registered : Level[g] <= lvl} = {})
          /\ (Emit(lvl) /\ \A g \in Registered : lvl < Level[g]) =>
                UNCHANGED <<log, nGates, Level, rec, closed, closing, run, prod,
                            main, accepted, delivered, sinkClosed, sinkFlushed>>
      ]_vars

\* an emit call on a Logger with a Filter has returned and no Filter has been
\* handed its record
C16_Witness ==
    /\ nextRec = 1
    /\ prod = IdleProd
    /\ Registered # {}
    /\ \A g \in Gates : accepted[g] = <<>>

\* C15: Level.String returns the short name of each of the six levels and
\* "UNKNOWN" for every other integer.
C15_LevelString ==
    (call.fn = "String" /\ call.done) =>
        call.ret[1] = IF call.arg[1] \in DEBUG..CRITICAL
                      THEN levelStrings[call.arg[1] + 1] ELSE "UNKNOWN"

\* the number a size string stands for: its digits times mult once for K,
\* twice for M, thrice for G, without any limit of width
RECURSIVE Scaled(_, _, _)
Scaled(x, mult, k) == IF k = 0 THEN x ELSE Scaled(MulAdd(x, mult, 0), mult, k - 1)

SizeOf(str, mult) ==
    LET last == str[Len(str)]
    IN  IF last \in {"G", "g"} THEN Scaled(Decimal(SubSeq(str, 1, Len(str) - 1)), mult, 3)
        ELSE IF last \in {"M", "m"} THEN Scaled(Decimal(SubSeq(str, 1, Len(str) - 1)), mult, 2)
        ELSE IF last \in {"K", "k"} THEN Scaled(Decimal(SubSeq(str, 1, Len(str) - 1)), mult, 1)
        ELSE Decimal(str)

\* C17: for a string of decimal digits n followed by nothing, K, M or G (in
\* either case), strToNumSuffix returns n, n*mult, n*mult^2 or n*mult^3.
C17_StrToNumSuffix ==
    (call.fn = "strToNumSuffix" /\ call.done) =>
        /\ FitsInt(SizeOf(call.arg[1], call.arg[2]))
        /\ call.ret[1] = WrapInt(SizeOf(call.arg[1], call.arg[2]))

\* the violations a filter can hold, and those a filter list holds:
\* <<filter, what>>
HasViolation(kvfilt, what) ==
    CASE what = "enabled missing" -> kvfilt.Enabled = ""
      [] what = "tag missing" -> kvfilt.Tag = ""
      [] what = "type missing" -> kvfilt.Type = ""
      [] what = "level missing" -> kvfilt.Level = ""
      [] what = "level unknown" -> kvfilt.Level \notin LevelNames \cup {""}
      [] what = "type unknown" -> kvfilt.Type \notin TypeNames \cup {""}

Violations(cfg) ==
    {v \in (1..Len(cfg)) \X {"enabled missing", "tag missing", "type missing",
                              "level missing", "level unknown", "type unknown"} :
        HasViolation(cfg[v[1]], v[2])}

\* C18: ConfigToLogWriter ends the process exactly when the filter list holds
\* a violation (a missing enabled, tag, type or level, an unknown level or
\* type), and by then it has reported every violation of the list.
C18_ConfigErrors ==
    (call.fn = "ConfigToLogWriter" /\ call.done) =>
        /\ call.ret[1].exit <=> Violations(call.arg[1]) # {}
        /\ call.ret[1].exit =>
              Violations(call.arg[1])
                  \subseteq {call.ret[1].out[j] : j \in 1..Len(call.ret[1].out)}

\* C19: the consumer goroutine is never inside the FileLogWriter's LogWrite
\* while the task that called Filter.Flush is inside the FileLogWriter's
\* Flush, past its c.wg.Wait().
C19_SinkExclusive ==
    ~(frun.pc \in {"load", "append", "check"}
        /\ fcall.pc \in {"test", "open", "swap", "write"})

\* the buffers swapped out and not yet written: those of the rotation
\* goroutines under way and that of Close's own write
Segments ==
    {rot[j].tmp : j \in InFlight} \cup (IF fcall.pc = "write" THEN {fcall.tmp} ELSE {})

SegmentsApart ==
    /\ iow \notin Segments
    /\ \A i, j \in 1..Len(rot) : i # j => rot[i].tmp # rot[j].tmp
    /\ \A j \in 1..Len(rot) : fcall.pc = "write" => rot[j].tmp # fcall.tmp

\* C20: the live buffer is none of the swapped-out buffers, no two writers
\* hold the same buffer, and a swapped-out buffer changes only when its
\* writer writes it out: no record is appended to it.
C20_BufferOwnership ==
    [][ /\ SegmentsApart
        /\ \A b \in Segments : buf'[b] = buf[b] \/ buf'[b] = <<>>
      ]_vars

\* C21: no producer ever sends on a Filter's channel after the channel has
\* been closed: whatever the interleaving of WriteToChan with Filter.Close, a
\* call of WriteToChan either enqueues its record before the channel is
\* closed or returns without sending, and the panic of a send on a closed
\* channel is never reached.
C21_NoSendOnClosed == prod.pc # "panic"

\* no os.OpenFile has failed, in a rotation goroutine or in Close
NoIOError ==
    /\ \A j \in 1..Len(rot) : rot[j].pc # "failed"
    /\ \A i \in 1..Len(fhist) : ~fhist[i].err

\* the calls so far are LogWrite calls followed by Flush, in sequence: every
\* Flush was called with no LogWrite under way, none began before it
\* returned, and the last Flush has returned after the last LogWrite
LogWritesThenFlush ==
    /\ Len(fhist) > 0
    /\ fcall.pc = "idle"
    /\ frun.pc = "recv"
    /\ \A i \in 1..Len(fhist) : ~fhist[i].busy /\ fhist[i].w0 = fhist[i].w1
    /\ fhist[Len(fhist)].w1 = frun.n

\* what the first i files hold of buffer b
RECURSIVE SegmentText(_, _)
SegmentText(b, i) ==
    IF i = 0 THEN <<>>
    ELSE SegmentText(b, i - 1) \o (IF files[i].seg = b THEN files[i].text ELSE <<>>)

\* what the files hold of buffers 1..b, the buffers taken in the order of
\* their allocation, which is the order in which they are swapped out
RECURSIVE Written(_)
Written(b) ==
    IF b = 0 THEN <<>> ELSE Written(b - 1) \o SegmentText(b, Len(files))

\* the files that hold record k
FilesOf(k) ==
    {i \in 1..Len(files) : \E x \in 1..Len(files[i].text) : files[i].text[x] = k}

\* C22: when no os.OpenFile has failed and LogWrite calls have been followed
\* by Flush (which is Close), every record handed to LogWrite is in exactly
\* one file, the live buffer is empty, and the swapped-out buffers, taken in
\* swap order, concatenate to the records in LogWrite order.
C22_Conservation ==
    (NoIOError /\ LogWritesThenFlush) =>
        /\ \A k \in 1..frun.n : Cardinality(FilesOf(k)) = 1
        /\ iow = 0 \/ buf[iow] = <<>>
        /\ Written(Len(buf)) = [k \in 1..frun.n |-> k]

\* three LogWrite calls and then a Flush, with no failure: a rotated file and
\* the file written by Close
C22_Witness ==
    /\ NoIOError
    /\ LogWritesThenFlush
    /\ frun.n = MaxWrites
    /\ \E i, j \in 1..Len(files) :
          /\ files[i].by = "rotate" /\ files[i].text # <<>>
          /\ files[j].by = "close" /\ files[j].text # <<>>

====
